---------------------------- MODULE Spec2Model ----------------------------
(***************************************************************************)
(* Traffic-generation and latency-instrumentation engine of the vLLM       *)
(* workload load test:                                                     *)
(*   request_version/multi_model/benchmark.py        (send_request and the *)
(*                                                    arrival scenarios)   *)
(*   request_version/single_model/vllm_benchmark_request.py (send_request  *)
(*                                                    of the sweep mode)   *)
(*                                                                         *)
(* Time is counted in integer ticks.  For the request executors one tick   *)
(* is one clock unit of time.time()/time.perf_counter() and the code's     *)
(* "* 1000" is kept.  For the scheduling loops one second is TicksPerSec   *)
(* ticks.  Python's float division is kept exact: a quotient a / b is the  *)
(* pair <<a, b>>, and b = 0 stands for ZeroDivisionError.                  *)
(*                                                                         *)
(* A run (run_single_test) is followed with its tracked tasks: the loop    *)
(* coroutine and the tasks share one event loop, so a task makes a step    *)
(* only while the loop coroutine is suspended.  There a task is reduced to *)
(* its beginning and its end; the exchange itself is followed in the       *)
(* specifications of send_request.                                         *)
(***************************************************************************)
EXTENDS Integers, Sequences, FiniteSets, Bags, TLC

\* ----------------------------------------------------------------- bounds
\* Largest clock reading of a request exchange.
MaxClock == 4
\* Largest number of lines one response stream carries.
MaxFrames == 3
\* Largest scheduling lag, in ticks, added to a sleep or between two clock reads.
MaxLag == 1
\* Resolution of the scheduler's clock.
TicksPerSec == 2
\* Largest target rate (requests per second) of a scenario.
MaxRate == 4
\* Number of seeds above the default one.
MaxSeed == 1
MaxDraws == 4
MaxSamples == 2
MaxWorkers == 2
MaxBatches == 3

\* ------------------------------------------------------ program constants
TEST_DURATION == 60
BURST_INTERVAL == 10
burst_size == 10
BURST_REST == 1
DEFAULT_SEED == 42
None == -1

VARIABLES
    now,        \* the clock read by the request executors
    m,          \* multi-model send_request: its local variables and position
    frames,     \* arrival times of the lines the multi-model executor was handed
    s,          \* single-model send_request: its local variables and position
    data_times, \* arrival times of the data frames the single-model executor saw
    wall,       \* the clock read by the scheduling loop (ticks)
    rate,       \* TARGET_RPS of the run
    duration,   \* TEST_DURATION of the run (seconds)
    b,          \* run_scenario_bursty: its local variables and position
    results,    \* len(results): the number of tasks the loop has tracked
    bursts,     \* burst events fired so far: <<int(current_elapsed), launches>>
    endpoint,   \* how the endpoint under test behaves during the run
    seed,       \* the --seed argument of the run
    sc,         \* the arrival scenario of a run: its local variables and position
    random_gen, \* state of random.Random(seed)
    np_gen,     \* state of np.random.default_rng(seed)
    all_tasks,  \* run_single_test: the tracked tasks, in the order of the list
    started,    \* how many tracked tasks have begun to execute send_request
    done,       \* the finished tasks: how send_request ended for each of them
    run,        \* run_single_test: its position and the futures still awaited
    responses,  \* run_single_test: the bag of collected records
    timed_out,  \* whether the session's total timeout ended the exchange of m
    zp,         \* two runs of the zipfian scenario, side by side: their draws
    cfg,        \* the first arrival of a scenario given some list of models
    pool,       \* run_phase_1_ttft: the queue, the workers and the results
    batch,      \* run_phase_2_itl: the batches, their requests and the results
    tests       \* main: the option chosen and the position among its scenarios

reqvars == <<now, m, frames>>
sglvars == <<s, data_times>>
schedvars == <<wall, rate, duration, b, results, bursts>>
runvars ==
    <<endpoint, seed, sc, random_gen, np_gen, all_tasks, started, done, run,
      responses>>
vars ==
    <<now, m, frames, s, data_times, wall, rate, duration, b, results, bursts,
      endpoint, seed, sc, random_gen, np_gen, all_tasks, started, done, run,
      responses, timed_out, zp, cfg, pool, batch, tests>>
studyvars == <<zp, cfg>>
sweepvars == <<pool, batch>>
mainvars == <<tests>>

\* ------------------------------------------------------------ arithmetic
\* (t1 - t0) * 1000: seconds to milliseconds.
Ms(d) == d * 1000

\* Python's a / b.
Quot(x, y) == <<x, y>>
\* The literal 0 assigned to avg_itl.
Zero == <<0, 1>>
Defined(q) == q[2] # 0
QEq(p, q) == Defined(p) /\ Defined(q) /\ p[1] * q[2] = q[1] * p[2]
IsZero(q) == Defined(q) /\ q[1] = 0

\* Python truthiness of an Optional[float].
Truthy(x) == x # None /\ x # 0

\* ------------------------------------------------------ the HTTP exchange
\* Status codes an endpoint answers with.
StatusCodes == {200, 204, 404, 500}

\* Lines a streaming body is made of.  Iteration over response.content ends at
\* the empty read, so every line handed to the loop body is non-empty.
DataLine == "data: {...}"
DoneLine == "data: [DONE]"
BlankLine == "<LF>"
CommentLine == ": ping"
BadUtf8Line == "<0xff>"
Lines == {DataLine, DoneLine, BlankLine, CommentLine, BadUtf8Line}

\* --------------------------------------- multi-model send_request
\* Lines 37-41: the locals before the exchange.
MStart(request_id, t) ==
    [pc |-> "post", request_id |-> request_id, start_time |-> t,
     ttft |-> 0, total_latency |-> 0, token_count |-> 0, status |-> "FAIL",
     first_token_time |-> None, last_token_time |-> None,
     avg_itl |-> Zero, code |-> None, exc |-> FALSE]

MIdle ==
    [pc |-> "idle", request_id |-> None, start_time |-> None,
     ttft |-> 0, total_latency |-> 0, token_count |-> 0, status |-> "FAIL",
     first_token_time |-> None, last_token_time |-> None,
     avg_itl |-> Zero, code |-> None, exc |-> FALSE]

\* Mutant: every status below 500 is taken for a success.
MStatusOk_Below500(code) == code < 500

\* Line 45.
MStatusOk(code) == code = 200

\* Mutant: the first-frame test is lost and every frame sets ttft.
MOnLine_TtftEveryFrame(r, line, t) ==
    IF line # ""
    THEN [r EXCEPT !.first_token_time = t,
                   !.ttft = Ms(t - r.start_time),
                   !.last_token_time = t,
                   !.token_count = r.token_count + 1]
    ELSE r

\* Lines 50-59: the loop body for one line received at time t.
MOnLine(r, line, t) ==
    IF line # ""
    THEN LET first == IF r.first_token_time = None THEN t ELSE r.first_token_time
         IN [r EXCEPT !.first_token_time = first,
                      !.ttft = IF r.first_token_time = None
                               THEN Ms(first - r.start_time) ELSE r.ttft,
                      !.last_token_time = t,
                      !.token_count = r.token_count + 1]
    ELSE r

\* Mutant: the else branch is lost and an empty stream keeps the initial status.
MOnStreamEnd_NoEmptyBranch(r) ==
    IF Truthy(r.last_token_time)
    THEN [r EXCEPT !.total_latency = Ms(r.last_token_time - r.start_time),
                   !.status = "SUCCESS"]
    ELSE r

\* Lines 62-68: classification once the stream is exhausted.
MOnStreamEnd(r) ==
    IF Truthy(r.last_token_time)
    THEN [r EXCEPT !.total_latency = Ms(r.last_token_time - r.start_time),
                   !.status = "SUCCESS"]
    ELSE [r EXCEPT !.status = "EMPTY_RESPONSE"]

\* Mutant: the status test is lost.
MAvgItl_NoStatusTest(r) ==
    IF r.token_count > 1
    THEN Quot(r.total_latency - r.ttft, r.token_count - 1)
    ELSE Zero

\* Mutant: the count test is off by one.
MAvgItl_OffByOne(r) ==
    IF r.token_count >= 1 /\ r.status = "SUCCESS"
    THEN Quot(r.total_latency - r.ttft, r.token_count - 1)
    ELSE Zero

\* Lines 78-80.
MAvgItl(r) ==
    IF r.token_count > 1 /\ r.status = "SUCCESS"
    THEN Quot(r.total_latency - r.ttft, r.token_count - 1)
    ELSE Zero

\* Lines 78-92: the code after the try block, up to the return.
MReturn(r) == [r EXCEPT !.avg_itl = MAvgItl(r), !.pc = "done"]

\* The record returned (lines 82-92).
MRecord ==
    [request_id |-> m.request_id, start_time |-> m.start_time,
     ttft_ms |-> m.ttft, total_latency_ms |-> m.total_latency,
     avg_itl_ms |-> m.avg_itl, token_count |-> m.token_count,
     status |-> m.status]

MInit ==
    /\ now = 1
    /\ m = MIdle
    /\ frames = <<>>

\* The clock advances; it never goes back.
Tick ==
    /\ now < MaxClock
    /\ now' = now + 1
    /\ UNCHANGED <<m, frames, sglvars, schedvars, runvars, timed_out, studyvars, sweepvars, mainvars>>

\* Lines 24-44: the call, up to the first suspension in session.post.
MSendRequest ==
    /\ m.pc = "idle"
    /\ m' = MStart(0, now)
    /\ UNCHANGED <<now, frames, sglvars, schedvars, runvars, timed_out, studyvars, sweepvars, mainvars>>

\* Lines 44-45, 69-72: the response head arrives with its status code.  A status
\* other than 200 leaves the with block and runs to the return.
MResponse ==
    /\ m.pc = "post"
    /\ \E code \in StatusCodes :
         m' = IF MStatusOk(code)
              THEN [m EXCEPT !.code = code, !.pc = "stream"]
              ELSE MReturn([m EXCEPT !.code = code])
    /\ UNCHANGED <<now, frames, sglvars, schedvars, runvars, timed_out, studyvars, sweepvars, mainvars>>

\* Lines 49-59: one more line of the body.
MLine ==
    /\ m.pc = "stream"
    /\ Len(frames) < MaxFrames
    /\ \E line \in Lines :
         /\ m' = MOnLine(m, line, now)
         /\ frames' = Append(frames, now)
    /\ UNCHANGED <<now, sglvars, schedvars, runvars, timed_out, studyvars, sweepvars, mainvars>>

\* Lines 49, 61-68, 78-92: the body ends; classify and return.
MStreamEnd ==
    /\ m.pc = "stream"
    /\ m' = MReturn(MOnStreamEnd(m))
    /\ UNCHANGED <<now, frames, sglvars, schedvars, runvars, timed_out, studyvars, sweepvars, mainvars>>

\* Lines 74-92: session.post or the iteration raises; the handler logs and the
\* code runs to the return with the locals as they are.
MException ==
    /\ m.pc \in {"post", "stream"}
    /\ m' = MReturn([m EXCEPT !.exc = TRUE])
    /\ UNCHANGED <<now, frames, sglvars, schedvars, runvars, timed_out, studyvars, sweepvars, mainvars>>

MNext == Tick \/ MSendRequest \/ MResponse \/ MLine \/ MStreamEnd \/ MException

\* Line 240: aiohttp.ClientSession() is given no timeout argument, so the
\* session carries aiohttp's DEFAULT_TIMEOUT, ClientTimeout(total=5 * 60): a
\* limit on the whole exchange, the reading of the body included.
ClientSessionTimeout == "ClientTimeout(total=300)"

\* Mutant: the session is built with ClientTimeout(total=None).
TotalTimeoutArmed_Never(timeout) == FALSE

\* aiohttp arms a timer for the exchange unless the total is None.
TotalTimeoutArmed(timeout) == timeout # "ClientTimeout(total=None)"

\* Lines 43-76: the timer of the session expires during the exchange;
\* asyncio.TimeoutError is raised in session.post or in the iteration and
\* the handler of line 74 takes it like any other exception.
MTimeout ==
    /\ m.pc \in {"post", "stream"}
    /\ TotalTimeoutArmed(ClientSessionTimeout)
    /\ m' = MReturn([m EXCEPT !.exc = TRUE])
    /\ timed_out' = TRUE
    /\ UNCHANGED <<now, frames, sglvars, schedvars, runvars, studyvars,
                   sweepvars, mainvars>>

MNextTimed == MNext \/ MTimeout

\* --------------------------------------- single-model send_request
\* line.decode("utf-8") raises on bytes that are not UTF-8.
Decodable(line) == line # BadUtf8Line
\* line.decode("utf-8").strip()
Strip(line) == IF line = BlankLine THEN "" ELSE line
StartsWithData(text) == text \in {DataLine, DoneLine}
\* Line 55.
IsDataFrame(text) == StartsWithData(text) /\ text # DoneLine

SIdle ==
    [pc |-> "idle", start_time |-> None, first_token_time |-> 0,
     token_times |-> <<>>, returned |-> "nothing", ttft |-> 0, avg_itl |-> Zero]

\* Lines 43-45.
SStart(t) == [SIdle EXCEPT !.pc = "post", !.start_time = t]

\* Lines 56-61: a data frame received at time t.
SOnData(r, t) ==
    IF r.first_token_time = 0
    THEN [r EXCEPT !.first_token_time = t]
    ELSE [r EXCEPT !.token_times = Append(r.token_times, t)]

\* Line 63.
STtft(r) == Ms(r.first_token_time - r.start_time)

\* Mutant: the duration is divided by the number of data frames.
SAvgItl_ByFrameCount(r) ==
    IF Len(r.token_times) > 0
    THEN LET d == r.token_times[Len(r.token_times)] - r.first_token_time
         IN Quot(Ms(d), Len(r.token_times) + 1)
    ELSE Zero

\* Lines 66-70.
SAvgItl(r) ==
    IF Len(r.token_times) > 0
    THEN LET d == r.token_times[Len(r.token_times)] - r.first_token_time
         IN Quot(Ms(d), Len(r.token_times))
    ELSE Zero

\* Lines 63-78: the record built after the stream.
SReturnRecord(r) ==
    [r EXCEPT !.ttft = STtft(r), !.avg_itl = SAvgItl(r),
              !.returned = "record", !.pc = "done"]

\* Lines 51 and 82: return None.
SReturnNone(r) == [r EXCEPT !.returned = "None", !.pc = "done"]

SInit ==
    /\ s = SIdle
    /\ data_times = <<>>

\* Lines 31-48: the call, up to the suspension in session.post.
SSendRequest ==
    /\ s.pc = "idle"
    /\ s' = SStart(now)
    /\ UNCHANGED <<now, m, frames, data_times, schedvars, runvars, timed_out, studyvars, sweepvars, mainvars>>

\* Lines 48-51: the response head; any status but 200 returns None.
SResponse ==
    /\ s.pc = "post"
    /\ \E code \in StatusCodes :
         s' = IF code # 200 THEN SReturnNone(s) ELSE [s EXCEPT !.pc = "stream"]
    /\ UNCHANGED <<now, m, frames, data_times, schedvars, runvars, timed_out, studyvars, sweepvars, mainvars>>

\* Lines 53-61: one more line of the body.
SLine ==
    /\ s.pc = "stream"
    /\ Len(data_times) < MaxFrames
    /\ \E line \in Lines :
         IF ~Decodable(line)
         THEN /\ s' = SReturnNone(s)
              /\ UNCHANGED data_times
         ELSE IF IsDataFrame(Strip(line))
         THEN /\ s' = SOnData(s, now)
              /\ data_times' = Append(data_times, now)
         ELSE UNCHANGED <<s, data_times>>
    /\ UNCHANGED <<now, m, frames, schedvars, runvars, timed_out, studyvars, sweepvars, mainvars>>

\* Lines 53, 63-78: the body ends; build the record.
SStreamEnd ==
    /\ s.pc = "stream"
    /\ s' = SReturnRecord(s)
    /\ UNCHANGED <<now, m, frames, data_times, schedvars, runvars, timed_out, studyvars, sweepvars, mainvars>>

\* Lines 80-82: session.post or the iteration raises.
SException ==
    /\ s.pc \in {"post", "stream"}
    /\ s' = SReturnNone(s)
    /\ UNCHANGED <<now, m, frames, data_times, schedvars, runvars, timed_out, studyvars, sweepvars, mainvars>>

SNext == Tick \/ SSendRequest \/ SResponse \/ SLine \/ SStreamEnd \/ SException

\* --------------------------------------- run_scenario_bursty
\* Target rates whose background period is a whole number of ticks; the
\* repository's TARGET_RPS = 1 is among them.
Rates == {r \in 1..MaxRate : (2 * TicksPerSec) % r = 0}
\* Scenario durations, in seconds: the 30-second window and TEST_DURATION.
Durations == {30, TEST_DURATION}

Secs(n) == n * TicksPerSec
\* int(current_elapsed), for an elapsed time in ticks (never negative).
IntSec(elapsed) == elapsed \div TicksPerSec

\* Mutant: the loop also runs at the very end of the window.
BRunning_Inclusive(elapsed, dur) == elapsed <= Secs(dur)

\* Line 159: the loop condition.
BRunning(elapsed, dur) == elapsed < Secs(dur)

\* Mutant: the test that excludes t = 0 is lost.
BIsBurst_AtZero(elapsed) == IntSec(elapsed) % BURST_INTERVAL = 0

\* Line 163: the burst condition.
BIsBurst(elapsed) ==
    IntSec(elapsed) % BURST_INTERVAL = 0 /\ IntSec(elapsed) > 0

\* Mutant: the background delay is 1 / TARGET_RPS.
BBackgroundSleep_FullRate(r) == Secs(1) \div r

\* Line 184: 1.0 / (TARGET_RPS / 2), in ticks.
BBackgroundSleep(r) == Secs(2) \div r

\* Mutant: a burst is followed by the background delay.
BBurstSleep_AsBackground(r) == BBackgroundSleep(r)

\* Line 177: the rest after a burst, in ticks.
BBurstSleep(r) == Secs(BURST_REST)

\* Mutant: the tasks of a burst all carry the counter read before the loop.
BBurstTasks_CounterNotAdvanced(req_id) ==
    [i \in 1..burst_size |-> <<"BURST", req_id>>]

\* Mutant: the burst loop stops one task short.
BBurstTasks_OneShort(req_id) ==
    [i \in 1..(burst_size - 1) |-> <<"BURST", req_id + i - 1>>]

\* Lines 171-174: the tasks one burst creates, in launch order.
BBurstTasks(req_id) == [i \in 1..burst_size |-> <<"BURST", req_id + i - 1>>]

BStart(t) ==
    [pc |-> "loop", start_test |-> t, req_id |-> 0, sleep |-> 0, lag |-> 0]

BInit ==
    /\ wall = 0
    /\ rate \in Rates
    /\ duration \in Durations
    /\ b = BStart(0)
    /\ results = 0
    /\ bursts = <<>>

BIdle ==
    /\ wall = 0
    /\ rate = 1
    /\ duration = TEST_DURATION
    /\ b = [BStart(0) EXCEPT !.pc = "idle"]
    /\ results = 0
    /\ bursts = <<>>

\* Line 159: the loop condition is evaluated on a first clock reading.
BLoopCheck ==
    /\ b.pc = "loop"
    /\ b' = [b EXCEPT !.pc = IF BRunning(wall - b.start_test, duration)
                             THEN "body" ELSE "done"]
    /\ UNCHANGED <<wall, rate, duration, results, bursts, reqvars, sglvars, runvars, timed_out, studyvars, sweepvars, mainvars>>

\* Between the clock reading of line 159 and that of line 160 time may pass.
BReadLag ==
    /\ b.pc = "body"
    /\ b.lag < MaxLag
    /\ wall' = wall + 1
    /\ b' = [b EXCEPT !.lag = b.lag + 1]
    /\ UNCHANGED <<rate, duration, results, bursts, reqvars, sglvars, runvars, timed_out, studyvars, sweepvars, mainvars>>

\* Lines 160-177: current_elapsed is read and the burst branch launches
\* burst_size tasks without suspending, then starts its sleep.
BBurst ==
    /\ b.pc = "body"
    /\ LET current_elapsed == wall - b.start_test IN
         /\ BIsBurst(current_elapsed)
         /\ results' = results + Len(BBurstTasks(b.req_id))
         /\ bursts' = Append(bursts, <<IntSec(current_elapsed),
                                       Len(BBurstTasks(b.req_id))>>)
         /\ b' = [b EXCEPT !.pc = "sleep",
                           !.req_id = b.req_id + Len(BBurstTasks(b.req_id)),
                           !.sleep = BBurstSleep(rate), !.lag = 0]
    /\ UNCHANGED <<wall, rate, duration, reqvars, sglvars, runvars, timed_out, studyvars, sweepvars, mainvars>>

\* Lines 160-163, 178-184: current_elapsed is read and the background branch
\* launches one task, then starts its sleep.
BBackground ==
    /\ b.pc = "body"
    /\ LET current_elapsed == wall - b.start_test IN
         /\ ~BIsBurst(current_elapsed)
         /\ results' = results + 1
         /\ b' = [b EXCEPT !.pc = "sleep", !.req_id = b.req_id + 1,
                           !.sleep = BBackgroundSleep(rate), !.lag = 0]
    /\ UNCHANGED <<wall, rate, duration, bursts, reqvars, sglvars, runvars, timed_out, studyvars, sweepvars, mainvars>>

\* The event loop is late resuming the sleeping scenario.
BOversleep ==
    /\ b.pc = "sleep"
    /\ b.lag < MaxLag
    /\ b' = [b EXCEPT !.lag = b.lag + 1]
    /\ UNCHANGED <<wall, rate, duration, results, bursts, reqvars, sglvars, runvars, timed_out, studyvars, sweepvars, mainvars>>

\* Lines 177/184, 186-188: asyncio.sleep returns, no earlier than asked.
BWake ==
    /\ b.pc = "sleep"
    /\ wall' = wall + b.sleep + b.lag
    /\ b' = [b EXCEPT !.pc = "loop", !.sleep = 0, !.lag = 0]
    /\ UNCHANGED <<rate, duration, results, bursts, reqvars, sglvars, runvars, timed_out, studyvars, sweepvars, mainvars>>

BNext ==
    BLoopCheck \/ BReadLag \/ BBurst \/ BBackground \/ BOversleep \/ BWake

\* --------------------------------------- the arrival scenarios of a run
\* Line 12.
MODELS == <<"Chatbot-A-large", "Chatbot-B", "Chatbot-C">>
\* Lines 194-202: the scenarios run_single_test dispatches on.
Scenarios == {"round_robin", "zipfian", "bursty"}

\* random.Random(seed) and np.random.default_rng(seed) are deterministic
\* generators: the sequence of draws is a function of the seed.  A linear
\* congruential generator with 16 states stands for both; a state g is the
\* draw g / 16 of [0, 1).
Seeded(sd) == sd % 16
Advance(g) == (5 * g + 3) % 16
RECURSIVE AdvanceBy(_, _)
AdvanceBy(g, k) == IF k = 0 THEN g ELSE AdvanceBy(Advance(g), k - 1)

\* Line 120: the weights, in hundredths.
Weights ==
    [i \in 1..Len(MODELS) |-> IF i = 1 THEN 80 ELSE 20 \div (Len(MODELS) - 1)]
RECURSIVE CumWeight(_)
CumWeight(i) == IF i = 0 THEN 0 ELSE CumWeight(i - 1) + Weights[i]

\* Line 131: random_gen.choices(MODELS, weights=weights, k=1)[0], the first
\* model whose cumulative weight exceeds draw * total.
WeightedChoice(g) ==
    LET total == CumWeight(Len(MODELS))
        hit(i) == g * total < 16 * CumWeight(i)
    IN MODELS[CHOOSE i \in 1..Len(MODELS) :
                  hit(i) /\ \A j \in 1..(i - 1) : ~hit(j)]

\* Lines 168 and 180: a uniform draw, MODELS[floor(draw * len(MODELS))].
UniformChoice(g) == MODELS[(g * Len(MODELS)) \div 16 + 1]

\* -ln(1 - g / 16), in hundredths: the exponential variate of unit scale.
ExpQuantile ==
    <<0, 6, 13, 20, 28, 37, 47, 57, 69, 82, 98, 116, 138, 167, 207, 277>>
\* Line 138: np_gen.exponential(1.0 / TARGET_RPS), in whole ticks.
ExpTicks(g, r) == (ExpQuantile[g + 1] * TicksPerSec) \div (100 * r)

\* Mutant: the rotation starts at the second model.
RRModel_OffByOne(req_id) == MODELS[((req_id + 1) % Len(MODELS)) + 1]

\* Line 105: MODELS[req_id % len(MODELS)].
RRModel(req_id) == MODELS[(req_id % Len(MODELS)) + 1]
\* Line 110: 1.0 / TARGET_RPS, in ticks.
RRSleep(r) == Secs(1) \div r
\* Target rates whose period is a whole number of ticks.
RRRates == {r \in 1..MaxRate : TicksPerSec % r = 0}

\* asyncio.create_task(send_request(session, request_id, model, scenario)).
Task(request_id, model) == [request_id |-> request_id, model |-> model]

\* Mutant: the task is put at the head of the list.
Track_AtHead(list, task) == <<task>> \o list

\* Lines 107, 134, 173, 182: results.append(task).
Track(list, task) == Append(list, task)

\* Lines 171-174: the for loop appends the tasks of a burst one by one.
RECURSIVE TrackEach(_, _)
TrackEach(list, tasks) ==
    IF tasks = <<>> THEN list
    ELSE TrackEach(Track(list, Head(tasks)), Tail(tasks))

\* Lines 168-172: burst_models = random_gen.choices(MODELS, k=burst_size) and
\* the tasks created from it.
BurstLaunches(req_id, g) ==
    [i \in DOMAIN BBurstTasks(req_id) |->
        Task(BBurstTasks(req_id)[i], UniformChoice(AdvanceBy(g, i - 1)))]

ScStart(name, t) ==
    [name |-> name, pc |-> "loop", start_test |-> t, req_id |-> 0,
     sleep |-> 0, lag |-> 0]
ScIdle == [ScStart("none", 0) EXCEPT !.pc = "idle"]

\* The positions in all_tasks of the tasks that are done.
Finished == {d.task : d \in done}

\* asyncio runs one coroutine at a time: a task makes a step only while the
\* coroutine of the run is suspended, in asyncio.sleep (lines 110, 140, 177,
\* 184) or in the await of line 208.
Suspended == sc.pc = "sleep" \/ run.pc = "collect"

\* Lines 104, 129, 159: the loop condition is evaluated on a clock reading.
ScLoopCheck ==
    /\ sc.pc = "loop"
    /\ sc' = [sc EXCEPT !.pc = IF BRunning(wall - sc.start_test, duration)
                               THEN "body" ELSE "done"]
    /\ UNCHANGED <<endpoint, seed, random_gen, np_gen, all_tasks, started,
                   done, run, responses>>
    /\ UNCHANGED <<reqvars, sglvars, schedvars, timed_out, studyvars, sweepvars, mainvars>>

\* Bursty: between the clock reading of line 159 and that of line 160.
ScReadLag ==
    /\ sc.name = "bursty"
    /\ sc.pc = "body"
    /\ sc.lag < MaxLag
    /\ wall' = wall + 1
    /\ sc' = [sc EXCEPT !.lag = sc.lag + 1]
    /\ UNCHANGED <<endpoint, seed, random_gen, np_gen, all_tasks, started,
                   done, run, responses>>
    /\ UNCHANGED <<rate, duration, b, results, bursts, reqvars, sglvars,
                   timed_out, studyvars, sweepvars, mainvars>>

\* Lines 105-110: one round-robin arrival, then the sleep begins.
RoundRobinLaunch ==
    /\ sc.name = "round_robin"
    /\ sc.pc = "body"
    /\ all_tasks' = Track(all_tasks,
                          Task(<<"RR", sc.req_id>>, RRModel(sc.req_id)))
    /\ sc' = [sc EXCEPT !.pc = "sleep", !.req_id = sc.req_id + 1,
                        !.sleep = RRSleep(rate), !.lag = 0]
    /\ UNCHANGED <<endpoint, seed, random_gen, np_gen, started, done, run,
                   responses>>
    /\ UNCHANGED <<reqvars, sglvars, schedvars, timed_out, studyvars, sweepvars, mainvars>>

\* Lines 131-140: one zipfian arrival, then the sleep begins.
ZipfianLaunch ==
    /\ sc.name = "zipfian"
    /\ sc.pc = "body"
    /\ all_tasks' = Track(all_tasks,
                          Task(<<"ZIPF", sc.req_id>>, WeightedChoice(random_gen)))
    /\ random_gen' = Advance(random_gen)
    /\ np_gen' = Advance(np_gen)
    /\ sc' = [sc EXCEPT !.pc = "sleep", !.req_id = sc.req_id + 1,
                        !.sleep = ExpTicks(np_gen, rate), !.lag = 0]
    /\ UNCHANGED <<endpoint, seed, started, done, run, responses>>
    /\ UNCHANGED <<reqvars, sglvars, schedvars, timed_out, studyvars, sweepvars, mainvars>>

\* Lines 160-177: the burst branch creates and tracks burst_size tasks
\* without suspending, then starts its sleep.
BurstLaunch ==
    /\ sc.name = "bursty"
    /\ sc.pc = "body"
    /\ BIsBurst(wall - sc.start_test)
    /\ all_tasks' = TrackEach(all_tasks, BurstLaunches(sc.req_id, random_gen))
    /\ random_gen' = AdvanceBy(random_gen, burst_size)
    /\ sc' = [sc EXCEPT !.pc = "sleep",
                        !.req_id = sc.req_id + Len(BBurstTasks(sc.req_id)),
                        !.sleep = BBurstSleep(rate), !.lag = 0]
    /\ UNCHANGED <<endpoint, seed, np_gen, started, done, run, responses>>
    /\ UNCHANGED <<reqvars, sglvars, schedvars, timed_out, studyvars, sweepvars, mainvars>>

\* Lines 160-163, 178-184: the background branch creates and tracks one task,
\* then starts its sleep.
BackgroundLaunch ==
    /\ sc.name = "bursty"
    /\ sc.pc = "body"
    /\ ~BIsBurst(wall - sc.start_test)
    /\ all_tasks' = Track(all_tasks,
                          Task(<<"BG", sc.req_id>>, UniformChoice(random_gen)))
    /\ random_gen' = Advance(random_gen)
    /\ sc' = [sc EXCEPT !.pc = "sleep", !.req_id = sc.req_id + 1,
                        !.sleep = BBackgroundSleep(rate), !.lag = 0]
    /\ UNCHANGED <<endpoint, seed, np_gen, started, done, run, responses>>
    /\ UNCHANGED <<reqvars, sglvars, schedvars, timed_out, studyvars, sweepvars, mainvars>>

\* The event loop is late resuming the sleeping scenario.
ScOversleep ==
    /\ sc.pc = "sleep"
    /\ sc.lag < MaxLag
    /\ sc' = [sc EXCEPT !.lag = sc.lag + 1]
    /\ UNCHANGED <<endpoint, seed, random_gen, np_gen, all_tasks, started,
                   done, run, responses>>
    /\ UNCHANGED <<reqvars, sglvars, schedvars, timed_out, studyvars, sweepvars, mainvars>>

\* Mutant: the loop awaits the task it has just created.
ScMayResume_AwaitsTask(tracked, finished) ==
    \A i \in 1..Len(tracked) : i \in finished

\* Lines 110, 140, 177, 184: asyncio.sleep returns when its delay has elapsed,
\* whatever has become of the tracked tasks.
ScMayResume(tracked, finished) == TRUE

\* asyncio.sleep returns, no earlier than asked.
ScWake ==
    /\ sc.pc = "sleep"
    /\ ScMayResume(all_tasks, Finished)
    /\ wall' = wall + sc.sleep + sc.lag
    /\ sc' = [sc EXCEPT !.pc = "loop", !.sleep = 0, !.lag = 0]
    /\ UNCHANGED <<endpoint, seed, random_gen, np_gen, all_tasks, started,
                   done, run, responses>>
    /\ UNCHANGED <<rate, duration, b, results, bursts, reqvars, sglvars,
                   timed_out, studyvars, sweepvars, mainvars>>

\* A created task is scheduled by the event loop: tasks begin in the order of
\* their creation, line 24 up to the await of line 45.
TaskStart ==
    /\ Suspended
    /\ started < Len(all_tasks)
    /\ started' = started + 1
    /\ UNCHANGED <<endpoint, seed, sc, random_gen, np_gen, all_tasks, done,
                   run, responses>>
    /\ UNCHANGED <<reqvars, sglvars, schedvars, timed_out, studyvars, sweepvars, mainvars>>

ScNext ==
    \/ ScLoopCheck \/ ScReadLag \/ RoundRobinLaunch \/ ZipfianLaunch
    \/ BurstLaunch \/ BackgroundLaunch \/ ScOversleep \/ ScWake \/ TaskStart

\* --------------------------------------- run_single_test
\* How the endpoint behaves during a run: it serves every request, it refuses
\* every connection, or it does either and may also answer with an error
\* status or an empty stream.
Endpoints == {"up", "down", "flaky"}
Exchanges == {"tokens", "no_tokens", "status", "exception"}
EndpointExchanges(e) ==
    CASE e = "up" -> {"tokens"}
      [] e = "down" -> {"exception"}
      [] OTHER -> Exchanges

\* Lines 37-92: the status send_request gives the record, by the way the
\* exchange went.
ExchangeStatus(ev) ==
    LET r0 == MStart(0, 1) IN
    CASE ev = "tokens" -> MReturn(MOnStreamEnd(MOnLine(r0, DataLine, 2))).status
      [] ev = "no_tokens" -> MReturn(MOnStreamEnd(r0)).status
      [] OTHER -> MReturn(r0).status

\* Mutant: send_request has no exception handler.
Caught_Nothing(ev) == FALSE

\* Lines 43, 74-76: the try block spans the whole exchange and its handler
\* catches Exception, the base of every transport error.
Caught(ev) == TRUE

\* How the task of position i is done: send_request returned a record, or an
\* exception left it and is stored in the task.
SendRequestEnd(i, ev) ==
    [task |-> i, raised |-> ev = "exception" /\ ~Caught(ev),
     status |-> ExchangeStatus(ev)]

\* Lines 82-92: the record of a task that is done, without its timings.
Record(d) ==
    [request_id |-> all_tasks[d.task].request_id,
     model |-> all_tasks[d.task].model, status |-> d.status]

\* Mutant: the last tracked task is not awaited.
AsCompleted_WithoutLast(tasks) == 1..(Len(tasks) - 1)

\* Line 207: asyncio.as_completed(all_tasks) yields every future it was
\* given, each once, as they are done.
AsCompleted(tasks) == 1..Len(tasks)

\* Mutant: the awaited result is not kept.
Awaited_Dropped(bag, rec) == bag

\* Line 208: responses.append(await f).
Awaited(bag, rec) == bag (+) SetToBag({rec})

\* Lines 207-213: the for loop ends when as_completed has nothing left to
\* yield; the table is then built and saved without suspending.
AfterCollect(todo) == IF todo = {} THEN "saved" ELSE "collect"

\* Mutant: the end of a request moves the counter of the loop.
TaskFinish_AdvancesCounter ==
    /\ Suspended
    /\ \E i \in (1..started) \ Finished :
         \E ev \in EndpointExchanges(endpoint) :
            done' = done \cup {SendRequestEnd(i, ev)}
    /\ sc' = [sc EXCEPT !.req_id = @ + 1]
    /\ UNCHANGED <<endpoint, seed, random_gen, np_gen, all_tasks, started,
                   run, responses>>
    /\ UNCHANGED <<reqvars, sglvars, schedvars, timed_out, studyvars, sweepvars, mainvars>>

\* The exchange of a task that has begun ends, and send_request runs from
\* there to its return (lines 45-92).
TaskFinish ==
    /\ Suspended
    /\ \E i \in (1..started) \ Finished :
         \E ev \in EndpointExchanges(endpoint) :
            done' = done \cup {SendRequestEnd(i, ev)}
    /\ UNCHANGED <<endpoint, seed, sc, random_gen, np_gen, all_tasks, started,
                   run, responses>>
    /\ UNCHANGED <<reqvars, sglvars, schedvars, timed_out, studyvars, sweepvars, mainvars>>

\* Lines 204-207: the scenario has returned; the collection begins.
StartCollect ==
    /\ run.pc = "scenario"
    /\ sc.pc = "done"
    /\ run' = [pc |-> AfterCollect(AsCompleted(all_tasks)),
               todo |-> AsCompleted(all_tasks)]
    /\ UNCHANGED <<endpoint, seed, sc, random_gen, np_gen, all_tasks, started,
                   done, responses>>
    /\ UNCHANGED <<reqvars, sglvars, schedvars, timed_out, studyvars, sweepvars, mainvars>>

\* Lines 207-213: the next future that is done is awaited: its record is
\* appended, or the exception stored in it is raised in run_single_test.
Collect ==
    /\ run.pc = "collect"
    /\ \E d \in done :
         /\ d.task \in run.todo
         /\ IF d.raised
            THEN /\ run' = [run EXCEPT !.pc = "crashed"]
                 /\ UNCHANGED responses
            ELSE /\ responses' = Awaited(responses, Record(d))
                 /\ run' = [pc |-> AfterCollect(run.todo \ {d.task}),
                            todo |-> run.todo \ {d.task}]
    /\ UNCHANGED <<endpoint, seed, sc, random_gen, np_gen, all_tasks, started,
                   done>>
    /\ UNCHANGED <<reqvars, sglvars, schedvars, timed_out, studyvars, sweepvars, mainvars>>

\* Lines 215-217: df.groupby("model")["total_latency_ms"].describe(), taken
\* on the whole table: for each model, the records the statistics are
\* computed over.
LatencySummary(table) ==
    [mdl \in {rec.model : rec \in BagToSet(table)} |->
        {rec \in BagToSet(table) : rec.model = mdl}]

\* run_single_test with test_case 1 or 2.
RunNext ==
    \/ ScLoopCheck \/ RoundRobinLaunch \/ ZipfianLaunch \/ ScOversleep
    \/ ScWake \/ TaskStart \/ TaskFinish \/ StartCollect \/ Collect

\* ------------------------------------------------------- specifications
\* No scenario is being run.
RunIdle ==
    /\ endpoint = "up"
    /\ seed = DEFAULT_SEED
    /\ sc = ScIdle
    /\ random_gen = Seeded(DEFAULT_SEED)
    /\ np_gen = Seeded(DEFAULT_SEED)
    /\ all_tasks = <<>>
    /\ started = 0
    /\ done = {}
    /\ run = [pc |-> "idle", todo |-> {}]
    /\ responses = EmptyBag
\* No request exchange is being followed.
ExchangeIdle == MInit /\ SInit /\ timed_out = FALSE
\* main has not been given an option.
MainIdle == tests = [pc |-> "idle"]
\* No side-by-side study and no sweep is being run.
StudyIdle == zp = [pc |-> "idle"] /\ cfg = [pc |-> "idle"]
SweepIdle == pool = [pc |-> "idle"] /\ batch = [pc |-> "idle"]

\* One multi-model request exchange.
InitSendRequest ==
    ExchangeIdle /\ MainIdle /\ BIdle /\ RunIdle /\ StudyIdle /\ SweepIdle
SpecSendRequest == InitSendRequest /\ [][MNext]_vars

\* One multi-model request exchange whose endpoint may fall silent at any
\* point; an armed timer of the event loop expires in the end.
SpecSendRequestTimed ==
    InitSendRequest /\ [][MNextTimed]_vars /\ WF_vars(MTimeout)

\* One single-model request exchange.
SpecSingle == InitSendRequest /\ [][SNext]_vars

\* One run of the bursty scenario, under every timing of the loop.
InitBursty ==
    ExchangeIdle /\ MainIdle /\ BInit /\ RunIdle /\ StudyIdle /\ SweepIdle
SpecBursty == InitBursty /\ [][BNext]_vars

\* The runs of the bursty scenario in which every timer fires exactly on time
\* and no time passes between two successive clock readings.
BNextPunctual == BLoopCheck \/ BBurst \/ BBackground \/ BWake
SpecBurstyPunctual == InitBursty /\ [][BNextPunctual]_vars

\* Seeds of a run: the default of line 253 and its successors.
Seeds == DEFAULT_SEED..(DEFAULT_SEED + MaxSeed)
\* Scenario durations, in seconds: long enough for a burst to fire in the
\* bursty scenario, and the 5-second window for the others.
ScDurations(name) == IF name = "bursty" THEN {12} ELSE {5}
ScRates(name) == IF name = "bursty" THEN Rates ELSE RRRates

\* Lines 97-98, 122-127, 148-153: a scenario begins on an empty task list.
ScInit(name, rates, durations) ==
    /\ wall = 0
    /\ rate \in rates
    /\ duration \in durations
    /\ b = [BStart(0) EXCEPT !.pc = "idle"]
    /\ results = 0
    /\ bursts = <<>>
    /\ seed \in Seeds
    /\ sc = ScStart(name, 0)
    /\ random_gen = Seeded(seed)
    /\ np_gen = Seeded(seed)
    /\ all_tasks = <<>>
    /\ started = 0
    /\ done = {}
    /\ responses = EmptyBag

\* One arrival scenario and the tasks it creates, under every timing of the
\* loop; the tasks begin but their exchanges are not followed.
InitScenario ==
    /\ ExchangeIdle /\ MainIdle /\ StudyIdle /\ SweepIdle
    /\ endpoint = "up"
    /\ run = [pc |-> "scenario", todo |-> {}]
    /\ \E name \in Scenarios : ScInit(name, ScRates(name), ScDurations(name))
SpecScenario == InitScenario /\ [][ScNext]_vars

\* One run of run_single_test over a short window, against every endpoint
\* behaviour and under every timing and every order of completion.
InitRun ==
    /\ ExchangeIdle /\ MainIdle /\ StudyIdle /\ SweepIdle
    /\ endpoint \in Endpoints
    /\ run = [pc |-> "scenario", todo |-> {}]
    /\ \E name \in {"round_robin", "zipfian"} : ScInit(name, {1}, {2, 3})
SpecRun == InitRun /\ [][RunNext]_vars

\* The same runs, when the event loop keeps running what is ready to run and
\* every exchange ends: no fairness is asked of the scheduling lag.
RunFairness ==
    /\ WF_vars(ScLoopCheck) /\ WF_vars(RoundRobinLaunch)
    /\ WF_vars(ZipfianLaunch) /\ WF_vars(ScWake) /\ WF_vars(TaskStart)
    /\ WF_vars(TaskFinish) /\ WF_vars(StartCollect) /\ WF_vars(Collect)
SpecRunFair == SpecRun /\ RunFairness

\* The round-robin run of 5 seconds at 2 requests per second, against an
\* endpoint that serves every request or refuses every connection.
InitRunTen ==
    /\ ExchangeIdle /\ MainIdle /\ StudyIdle /\ SweepIdle
    /\ endpoint \in {"up", "down"}
    /\ run = [pc |-> "scenario", todo |-> {}]
    /\ ScInit("round_robin", {2} \cap RRRates, {5})
RoundRobinRunNext ==
    \/ ScLoopCheck \/ RoundRobinLaunch \/ ScOversleep \/ ScWake
    \/ TaskStart \/ TaskFinish \/ StartCollect \/ Collect
SpecRunTen == InitRunTen /\ [][RoundRobinRunNext]_vars

\* ------------------------------------------------------------- main
\* Line 241 and lines 194-202: the test cases of option 4, and the scenario
\* each test case number stands for.
RunAllScenarios == <<1, 2, 3>>
CaseName(test_case) == <<"round_robin", "zipfian", "bursty">>[test_case]
\* Lines 240-249: the test cases an option runs, in order.
TestCasesOf(option) == IF option = 4 THEN RunAllScenarios ELSE <<option>>
\* Line 247: asyncio.sleep(10) between two test cases.
TEST_GAP == 10

\* Lines 240-243: main enters its first run_single_test.
MainStart(option) ==
    [pc |-> "test", option |-> option, scenarios |-> TestCasesOf(option),
     i |-> 1, carried |-> {}]

\* The requests of the current run_single_test that have not returned or
\* whose result has not been collected.
Outstanding ==
    {all_tasks[k].request_id :
        k \in {j \in DOMAIN all_tasks :
                  \/ j \notin Finished
                  \/ \A rec \in BagToSet(responses) :
                        rec.request_id # all_tasks[j].request_id}}

\* Lines 242-247 and 190-202: run_single_test has returned and a test case
\* is left; main sleeps and calls run_single_test again, which begins the
\* next scenario on a task list, a counter and generators of its own.
\* carried keeps what the run before has left outstanding.
NextTest ==
    /\ tests.pc = "test"
    /\ run.pc = "saved"
    /\ tests.i < Len(tests.scenarios)
    /\ tests' = [tests EXCEPT
                    !.i = @ + 1,
                    !.carried = @ \cup {<<sc.name, q>> : q \in Outstanding}]
    /\ wall' = wall + Secs(TEST_GAP)
    /\ sc' = ScStart(CaseName(tests.scenarios[tests.i + 1]),
                     wall + Secs(TEST_GAP))
    /\ random_gen' = Seeded(seed)
    /\ np_gen' = Seeded(seed)
    /\ all_tasks' = <<>>
    /\ started' = 0
    /\ done' = {}
    /\ responses' = EmptyBag
    /\ run' = [pc |-> "scenario", todo |-> {}]
    /\ UNCHANGED <<endpoint, seed, rate, duration, b, results, bursts>>
    /\ UNCHANGED <<reqvars, sglvars, timed_out, studyvars, sweepvars>>

\* Lines 240-249: the last run_single_test has returned; the session is
\* closed and main returns.
MainReturn ==
    /\ tests.pc = "test"
    /\ run.pc = "saved"
    /\ tests.i = Len(tests.scenarios)
    /\ tests' = [tests EXCEPT !.pc = "returned"]
    /\ UNCHANGED <<reqvars, sglvars, schedvars, runvars, timed_out,
                   studyvars, sweepvars>>

\* main with each of its four options, over windows of two seconds (no
\* burst falls in such a window), against every endpoint behaviour.
InitMain ==
    /\ ExchangeIdle /\ StudyIdle /\ SweepIdle
    /\ endpoint \in Endpoints
    /\ run = [pc |-> "scenario", todo |-> {}]
    /\ \E option \in 1..4 :
          /\ tests = MainStart(option)
          /\ ScInit(CaseName(TestCasesOf(option)[1]), {1}, {2})
MainNext ==
    \/ ScLoopCheck \/ ScReadLag \/ RoundRobinLaunch \/ ZipfianLaunch
    \/ BackgroundLaunch \/ ScOversleep \/ ScWake \/ TaskStart \/ TaskFinish
    \/ StartCollect \/ Collect \/ NextTest \/ MainReturn
SpecMain == InitMain /\ [][MainNext]_vars

\* ------------------------------------- two zipfian runs, side by side
\* States of the generators of the process (the random module's own
\* generator and numpy's), which are seeded from the system at start-up.
ProcessStates == 0..15

NewGenerator_ProcessWide(sd, process_state) == process_state
\* Lines 122-123: random.Random(seed) and np.random.default_rng(seed) build
\* new generators from the seed; the generators of the process take no part.
NewGenerator(sd, process_state) == Seeded(sd)

\* Lines 122-127: the generators and the lists of one zipfian run; drawn keeps,
\* for every value drawn, which generator gave it.
ZipfianStart(sd, process_state) ==
    [seed |-> sd,
     random_gen |-> NewGenerator(sd, process_state),
     np_gen |-> NewGenerator(sd, process_state),
     choices |-> <<>>, delays |-> <<>>, drawn |-> <<>>]

\* Lines 131-138 of one iteration: random_gen.choices gives the model and
\* np_gen.exponential the delay.
ZipfianDraw(z, r) ==
    [z EXCEPT !.choices = Append(@, WeightedChoice(z.random_gen)),
              !.delays = Append(@, ExpTicks(z.np_gen, r)),
              !.drawn = @ \o <<[value |-> "model", generator |-> "random_gen"],
                               [value |-> "delay", generator |-> "np_gen"]>>,
              !.random_gen = Advance(@),
              !.np_gen = Advance(@)]

ZipfianStepA ==
    /\ zp.pc = "pair" /\ Len(zp.a.choices) < MaxDraws
    /\ zp' = [zp EXCEPT !.a = ZipfianDraw(@, rate)]
    /\ UNCHANGED <<cfg, reqvars, sglvars, schedvars, runvars, timed_out,
                   sweepvars, mainvars>>

ZipfianStepB ==
    /\ zp.pc = "pair" /\ Len(zp.b.choices) < MaxDraws
    /\ zp' = [zp EXCEPT !.b = ZipfianDraw(@, rate)]
    /\ UNCHANGED <<cfg, reqvars, sglvars, schedvars, runvars, timed_out,
                   sweepvars, mainvars>>

\* Two runs of run_scenario_zipfian at TARGET_RPS, each in a process of its
\* own, with every pair of seeds.
InitZipfianPair ==
    /\ ExchangeIdle /\ MainIdle /\ BIdle /\ RunIdle /\ SweepIdle
    /\ cfg = [pc |-> "idle"]
    /\ \E sa \in Seeds, sb \in Seeds, pa \in ProcessStates,
          pb \in ProcessStates :
          zp = [pc |-> "pair", a |-> ZipfianStart(sa, pa),
                b |-> ZipfianStart(sb, pb), process |-> <<pa, pb>>]
ZipfianPairNext == ZipfianStepA \/ ZipfianStepB
SpecZipfianPair == InitZipfianPair /\ [][ZipfianPairNext]_vars

\* ------------------------------------------- the single-model sweep
\* Lines 13, 15 and 19 of vllm_benchmark_request.py.
PHASE1_INPUT_LENGTHS == <<128, 512, 1024, 2048>>
PHASE1_CONCURRENCY == 1
PHASE2_BATCH_SIZES == <<1, 2, 4, 8, 16, 32, 64>>
PHASE2_INPUT_LEN == 512

\* What send_request gives back: a record (lines 72-78) or None (lines 51, 82).
Returns == {"record", "None"}
SweepResult(returned, input_len, size, type) ==
    [returned |-> returned, input_len |-> input_len, batch_size |-> size,
     type |-> type]
\* Lines 104-105 and 131-132: results.append(res) under "if res"; a record
\* is truthy and None is not.
Collected(bag, res) ==
    IF res.returned = "record" THEN bag (+) SetToBag({res}) ELSE bag

\* Lines 91-93: the queue is filled with samples items per length; an item is
\* its position in that filling.
QueueLength(item, samples) == PHASE1_INPUT_LENGTHS[((item - 1) \div samples) + 1]

\* Lines 87-110: run_phase_1_ttft up to the suspension in queue.join().
Phase1Start(lengths, samples, concurrency) ==
    [pc |-> "join", samples |-> samples, concurrency |-> concurrency,
     put |-> lengths * samples,
     queue |-> [i \in 1..(lengths * samples) |-> i],
     unfinished |-> lengths * samples,
     workers |-> [w \in 1..concurrency |-> [pc |-> "new", item |-> None]],
     results |-> EmptyBag, executed |-> EmptyBag]

\* Line 99: await queue.get() takes the head of a queue that holds an item,
\* without suspending; on an empty queue the worker is suspended in get
\* until an item is put.
QueueGet(p, w) ==
    IF p.queue = <<>>
    THEN [p EXCEPT !.workers[w] = [pc |-> "get", item |-> None]]
    ELSE [p EXCEPT !.workers[w] = [pc |-> "request", item |-> Head(p.queue)],
                   !.queue = Tail(@)]

\* Mutant: the loop is "while True", the worker calls get without a test.
WorkerLoop_NoEmptinessTest(p, w) == QueueGet(p, w)

\* Lines 98-99: the loop test, and queue.get() in the same step.
WorkerLoop(p, w) ==
    IF p.queue = <<>>
    THEN [p EXCEPT !.workers[w] = [pc |-> "exited", item |-> None]]
    ELSE QueueGet(p, w)

\* Lines 97-101: a worker task begins and runs up to its first suspension.
WorkerBegin ==
    /\ pool.pc = "join"
    /\ \E w \in DOMAIN pool.workers :
          /\ pool.workers[w].pc = "new"
          /\ pool' = WorkerLoop(pool, w)
    /\ UNCHANGED <<batch, studyvars, reqvars, sglvars, schedvars, runvars,
                   timed_out, mainvars>>

\* Lines 101-106 and back to 98-101: send_request returns to the worker,
\* which keeps the result, marks the item done and goes round the loop.
WorkerRequestEnd ==
    /\ pool.pc = "join"
    /\ \E w \in DOMAIN pool.workers, returned \in Returns :
          /\ pool.workers[w].pc = "request"
          /\ LET item == pool.workers[w].item
                 res == SweepResult(returned, QueueLength(item, pool.samples),
                                    PHASE1_CONCURRENCY, "TTFT")
                 p == [pool EXCEPT
                          !.results = Collected(@, res),
                          !.executed =
                              @ (+) SetToBag({[item |-> item, worker |-> w]}),
                          !.unfinished = @ - 1]
             IN pool' = WorkerLoop(p, w)
    /\ UNCHANGED <<batch, studyvars, reqvars, sglvars, schedvars, runvars,
                   timed_out, mainvars>>

JoinMayReturn_QueueEmpty(queue, unfinished) == queue = <<>>
\* Line 110: queue.join() returns once every item put has been marked done.
JoinMayReturn(queue, unfinished) == unfinished = 0

\* Lines 110-113: join returns, the workers still alive are cancelled and the
\* results are returned.
JoinReturn ==
    /\ pool.pc = "join"
    /\ JoinMayReturn(pool.queue, pool.unfinished)
    /\ pool' = [pool EXCEPT
                   !.pc = "returned",
                   !.workers = [w \in DOMAIN @ |->
                                   IF @[w].pc = "exited" THEN @[w]
                                   ELSE [@[w] EXCEPT !.pc = "cancelled"]]]
    /\ UNCHANGED <<batch, studyvars, reqvars, sglvars, schedvars, runvars,
                   timed_out, mainvars>>

\* Lines 121-129: one turn of the for loop of run_phase_2_itl, up to the
\* suspension in gather; the coroutines of the batch wait for their first run.
BatchBegin(bt) ==
    LET size == PHASE2_BATCH_SIZES[bt.next]
    IN [bt EXCEPT !.pc = "gather", !.batch_size = size, !.next = @ + 1,
                  !.waiting = {<<size, i>> : i \in 1..size},
                  !.returned = {}]

Phase2Start(batches) ==
    BatchBegin([pc |-> "for", batches |-> batches, next |-> 1,
                batch_size |-> 0, waiting |-> {}, inflight |-> {},
                returned |-> {}, results |-> EmptyBag, sent |-> 0])

\* Line 126: a request of the batch begins, up to the suspension in post.
BatchRequestBegin ==
    /\ batch.pc = "gather"
    /\ \E q \in batch.waiting :
          batch' = [batch EXCEPT !.waiting = @ \ {q},
                                 !.inflight = @ \cup {q},
                                 !.sent = @ + 1]
    /\ UNCHANGED <<pool, studyvars, reqvars, sglvars, schedvars, runvars,
                   timed_out, mainvars>>

\* Lines 47-82: a request of a batch returns.
BatchRequestEnd ==
    /\ batch.pc # "idle"
    /\ \E q \in batch.inflight, returned \in Returns :
          batch' = [batch EXCEPT
                       !.inflight = @ \ {q},
                       !.returned =
                           IF q[1] = batch.batch_size
                           THEN @ \cup {[request |-> q,
                                         res |-> SweepResult(returned,
                                             PHASE2_INPUT_LEN, q[1], "ITL")]}
                           ELSE @]
    /\ UNCHANGED <<pool, studyvars, reqvars, sglvars, schedvars, runvars,
                   timed_out, mainvars>>

GatherMayReturn_First(returned, size) == Cardinality(returned) >= 1
\* Line 129: gather returns when every request of the batch has returned.
GatherMayReturn(returned, size) == Cardinality(returned) = size

RECURSIVE CollectedAll(_, _)
\* Lines 130-132: the results of the batch are kept, one after the other.
CollectedAll(bag, rs) ==
    IF rs = {} THEN bag
    ELSE LET r == CHOOSE x \in rs : TRUE
         IN CollectedAll(Collected(bag, r.res), rs \ {r})

\* Lines 129-132 and 121-127, or 134: gather returns, the results are kept
\* and the next batch is issued, or the phase returns.
BatchGathered ==
    /\ batch.pc = "gather"
    /\ GatherMayReturn(batch.returned, batch.batch_size)
    /\ LET bt == [batch EXCEPT !.results = CollectedAll(@, batch.returned)]
       IN batch' = IF bt.next <= bt.batches
                   THEN BatchBegin(bt)
                   ELSE [bt EXCEPT !.pc = "returned"]
    /\ UNCHANGED <<pool, studyvars, reqvars, sglvars, schedvars, runvars,
                   timed_out, mainvars>>

\* The two phases of the sweep, each from its beginning: phase 1 on a queue
\* filled from the first one or two input lengths, with a pool of every
\* small size, phase 2 on the first batch sizes.  A request is followed from its beginning to its return.
InitSweep ==
    /\ ExchangeIdle /\ MainIdle /\ BIdle /\ RunIdle /\ StudyIdle
    /\ \/ /\ batch = [pc |-> "idle"]
          /\ \E lengths \in {1, 2}, samples \in 1..MaxSamples,
                concurrency \in PHASE1_CONCURRENCY..MaxWorkers :
                pool = Phase1Start(lengths, samples, concurrency)
       \/ /\ pool = [pc |-> "idle"]
          /\ batch = Phase2Start(MaxBatches)
SweepNext ==
    \/ WorkerBegin \/ WorkerRequestEnd \/ JoinReturn
    \/ BatchRequestBegin \/ BatchRequestEnd \/ BatchGathered
SpecSweep == InitSweep /\ [][SweepNext]_vars

\* --------------------------- the first arrival, on any list of models
\* What the selection of a step gives: the models chosen, or the exception
\* the expression raises.
Selected(error, chosen) == [error |-> error, chosen |-> chosen]

RoundRobinSelect_SkipEmpty(models, req_id) ==
    IF Len(models) = 0 THEN Selected("none", <<>>)
    ELSE Selected("none", <<models[(req_id % Len(models)) + 1]>>)
\* Line 105: models[req_id % len(models)]; the modulo by zero raises.
RoundRobinSelect(models, req_id) ==
    IF Len(models) = 0 THEN Selected("ZeroDivisionError", <<>>)
    ELSE Selected("none", <<models[(req_id % Len(models)) + 1]>>)

\* Lines 120 and 131.  With one model 0.2 / 0 raises; with none the list of
\* weights is [0.8], 0.2 / -1 being repeated -1 times, and choices raises on
\* a list of weights whose length is not that of the population.
ZipfianSelect(models, g) ==
    IF Len(models) = 1 THEN Selected("ZeroDivisionError", <<>>)
    ELSE LET weights == <<80>> \o [i \in 1..(Len(models) - 1) |->
                                      20 \div (Len(models) - 1)]
             cum[i \in 0..Len(weights)] ==
                 IF i = 0 THEN 0 ELSE cum[i - 1] + weights[i]
             hit(i) == g * cum[Len(weights)] < 16 * cum[i]
         IN IF Len(weights) # Len(models)
            THEN Selected("ValueError", <<>>)
            ELSE Selected("none",
                     <<models[CHOOSE i \in 1..Len(models) :
                                  hit(i) /\ \A j \in 1..(i - 1) : ~hit(j)]>>)

\* Lines 163-180: choices(models, k=burst_size) in a burst and choice(models)
\* otherwise; both index the population, and raise on an empty one.
BurstySelect(models, g, elapsed) ==
    IF Len(models) = 0 THEN Selected("IndexError", <<>>)
    ELSE LET pick(k) == models[(AdvanceBy(g, k) * Len(models)) \div 16 + 1]
         IN IF BIsBurst(elapsed)
            THEN Selected("none", [i \in 1..burst_size |-> pick(i - 1)])
            ELSE Selected("none", <<pick(0)>>)

\* Lines 97-98, 122-127, 148-153: a scenario begins on a list of models.
ArrivalStart(name, models, sd, elapsed) ==
    [pc |-> "loop", name |-> name, models |-> models,
     random_gen |-> Seeded(sd), elapsed |-> elapsed, req_id |-> 0,
     error |-> "none", launched |-> <<>>]

\* Lines 104, 129, 159: the first evaluation of the loop condition.
ArrivalCheck ==
    /\ cfg.pc = "loop"
    /\ cfg' = [cfg EXCEPT
                  !.pc = IF BRunning(cfg.elapsed, duration)
                         THEN "body" ELSE "returned"]
    /\ UNCHANGED <<zp, reqvars, sglvars, schedvars, runvars, timed_out,
                   sweepvars, mainvars>>

\* Lines 105-110, 131-140, 160-184: the first turn of the loop, up to the
\* sleep or to the exception.
ArrivalSelect ==
    /\ cfg.pc = "body"
    /\ LET sel == CASE cfg.name = "round_robin" ->
                          RoundRobinSelect(cfg.models, cfg.req_id)
                    [] cfg.name = "zipfian" ->
                          ZipfianSelect(cfg.models, cfg.random_gen)
                    [] cfg.name = "bursty" ->
                          BurstySelect(cfg.models, cfg.random_gen, cfg.elapsed)
           tasks == [i \in DOMAIN sel.chosen |->
                        Task(<<cfg.name, cfg.req_id + i - 1>>, sel.chosen[i])]
       IN cfg' = IF sel.error # "none"
                 THEN [cfg EXCEPT !.pc = "raised", !.error = sel.error]
                 ELSE [cfg EXCEPT !.pc = "sleep",
                                  !.launched = TrackEach(@, tasks),
                                  !.req_id = @ + Len(tasks)]
    /\ UNCHANGED <<zp, reqvars, sglvars, schedvars, runvars, timed_out,
                   sweepvars, mainvars>>

\* Lines 194-202 and 245: nothing catches the exception of a scenario; it
\* leaves run_single_test and main, and the run fails.
ArrivalRaise ==
    /\ cfg.pc = "raised"
    /\ cfg' = [cfg EXCEPT !.pc = "failed"]
    /\ UNCHANGED <<zp, reqvars, sglvars, schedvars, runvars, timed_out,
                   sweepvars, mainvars>>

\* The lists of models: MODELS cut to its first models, none included.
ModelLists == {SubSeq(MODELS, 1, n) : n \in 0..Len(MODELS)}
\* The first clock reading of line 160: at once, late, and so late that the
\* first turn of the bursty loop is a burst.
FirstReadings == {0, Secs(1), Secs(BURST_INTERVAL)}

\* The first arrival of each scenario on each list of models.
InitFirstArrival ==
    /\ ExchangeIdle /\ MainIdle /\ BIdle /\ RunIdle /\ SweepIdle
    /\ zp = [pc |-> "idle"]
    /\ \E name \in Scenarios, models \in ModelLists, sd \in Seeds,
          elapsed \in FirstReadings :
          cfg = ArrivalStart(name, models, sd, elapsed)
FirstArrivalNext == ArrivalCheck \/ ArrivalSelect \/ ArrivalRaise
SpecFirstArrival == InitFirstArrival /\ [][FirstArrivalNext]_vars

\* ------------------------- the two executors on one stream of frames
\* Both endpoints answer 200 (multi-model lines 44-47, single-model 48-49).
BothResponse ==
    /\ m.pc = "post" /\ s.pc = "post"
    /\ m' = [m EXCEPT !.code = 200, !.pc = "stream"]
    /\ s' = [s EXCEPT !.pc = "stream"]
    /\ UNCHANGED <<now, frames, data_times, schedvars, runvars, timed_out,
                   studyvars, sweepvars, mainvars>>

\* Multi-model lines 49-59 and single-model lines 53-61: a data frame reaches
\* both executors at the same time.
BothDataFrame ==
    /\ m.pc = "stream" /\ s.pc = "stream"
    /\ Len(frames) < MaxFrames
    /\ m' = MOnLine(m, DataLine, now)
    /\ s' = SOnData(s, now)
    /\ frames' = Append(frames, now)
    /\ data_times' = Append(data_times, now)
    /\ UNCHANGED <<now, schedvars, runvars, timed_out, studyvars, sweepvars, mainvars>>

\* Multi-model lines 61-92 and single-model lines 63-78: both bodies end.
BothStreamEnd ==
    /\ m.pc = "stream" /\ s.pc = "stream"
    /\ m' = MReturn(MOnStreamEnd(m))
    /\ s' = SReturnRecord(s)
    /\ UNCHANGED <<now, frames, data_times, schedvars, runvars, timed_out,
                   studyvars, sweepvars, mainvars>>

\* The two send_request, each called at a time of its own, receive one and
\* the same stream of data frames.
BothNext ==
    \/ Tick \/ MSendRequest \/ SSendRequest
    \/ BothResponse \/ BothDataFrame \/ BothStreamEnd
SpecBothExecutors == InitSendRequest /\ [][BothNext]_vars

Init == InitSendRequest
Next == MNext
Spec == SpecSendRequest

\* ------------------------------------------------------------- claims
\* A success status in the sense of HTTP: the 2xx class.
IsSuccessStatus(code) == code >= 200 /\ code < 300
MDone == m.pc = "done"
\* The exchange ran to the end of the with block: no exception was raised.
MCompleted == MDone /\ ~m.exc /\ m.code # None
ZeroLatencies(rec) ==
    rec.ttft_ms = 0 /\ rec.total_latency_ms = 0 /\ rec.avg_itl_ms = Zero

\* C1: a request that ends in a transport-level exception, at any point of the
\* exchange, returns a record with status FAIL and ttft_ms, total_latency_ms
\* and avg_itl_ms all zero.
C1_TransportErrorZeroFields ==
    (MDone /\ m.exc) => (MRecord.status = "FAIL" /\ ZeroLatencies(MRecord))

\* C2: a request answered with a non-success HTTP status returns a record with
\* status FAIL and ttft_ms, total_latency_ms and avg_itl_ms all zero.
C2_NonSuccessStatusFail ==
    /\ (MCompleted /\ ~IsSuccessStatus(m.code)) =>
           (MRecord.status = "FAIL" /\ ZeroLatencies(MRecord))
    /\ (m.code # None /\ ~IsSuccessStatus(m.code)) => MDone

C2_Witness ==
    MCompleted /\ m.code = 500 /\ now > m.start_time

C5_AvgItl ==
    MDone =>
        /\ Defined(MRecord.avg_itl_ms)
        /\ IF MRecord.status = "SUCCESS" /\ MRecord.token_count > 1
           THEN /\ MRecord.avg_itl_ms[1] * (MRecord.token_count - 1) =
                       (MRecord.total_latency_ms - MRecord.ttft_ms)
                           * MRecord.avg_itl_ms[2]
           ELSE MRecord.avg_itl_ms = Zero

\* A FAIL record with several frames counted and a non-zero ttft_ms.
C5_Witness ==
    /\ MDone /\ MRecord.status = "FAIL"
    /\ MRecord.token_count > 1 /\ MRecord.ttft_ms > 0

\* C6: every record of the multi-model send_request has a status among
\* SUCCESS, EMPTY_RESPONSE and FAIL, and ttft_ms >= 0; a SUCCESS record has
\* total_latency_ms >= ttft_ms and unit_count >= 1; a record with
\* unit_count <= 1 has avg_itl_ms = 0.
C6_RecordInvariant ==
    MDone =>
        /\ MRecord.status \in {"SUCCESS", "EMPTY_RESPONSE", "FAIL"}
        /\ MRecord.ttft_ms >= 0
        /\ MRecord.status = "SUCCESS" =>
               (MRecord.total_latency_ms >= MRecord.ttft_ms
                /\ MRecord.token_count >= 1)
        /\ MRecord.token_count <= 1 => MRecord.avg_itl_ms = Zero

\* A SUCCESS record of exactly one frame, received after the start.
C6_Witness ==
    /\ MDone /\ MRecord.status = "SUCCESS"
    /\ MRecord.token_count = 1 /\ MRecord.ttft_ms > 0

\* C7: every record of the single-model send_request has ttft_ms >= 0,
\* including the record of a 200 response whose stream carries no data frame.
C7_SingleTtftNonNegative ==
    (s.pc = "done" /\ s.returned = "record") => s.ttft >= 0

BDone == b.pc = "done"
\* The seconds at which the burst events so far fired.
FiredAt == {bursts[i][1] : i \in 1..Len(bursts)}

\* C8: no interval boundary inside the run is skipped: for every k >= 1 with
\* k * 10 < duration a burst event fires for that boundary.
C8_NoBoundarySkipped ==
    BDone =>
        \A k \in 1..duration :
            k * BURST_INTERVAL < duration => k * BURST_INTERVAL \in FiredAt

\* C9: no interval boundary fires more than one burst event.
C9_NoDoubleFire ==
    \A i, j \in 1..Len(bursts) : bursts[i][1] = bursts[j][1] => i = j

\* Two bursts fired while the loop polls more often than once a second.
C9_Witness ==
    BBackgroundSleep(rate) < Secs(1) /\ Len(bursts) >= 2

Last(list) == list[Len(list)]
IsPrefix(list, longer) ==
    Len(list) <= Len(longer) /\ SubSeq(longer, 1, Len(list)) = list
Kind(task) == task.request_id[1]
Number(task) == task.request_id[2]
\* A step of the loop that creates a task of the given kind.
Launches(kind) ==
    /\ Len(all_tasks') > Len(all_tasks)
    /\ Kind(all_tasks'[Len(all_tasks) + 1]) = kind

\* C11: a step that launches a burst request launches the burst_size requests
\* of the burst and nothing else: the tracked list grows by exactly burst_size
\* tasks, all of them burst tasks numbered consecutively after the tasks
\* already tracked, no task begins or finishes in that step, and the step
\* leaves the loop suspended in a sleep of one second, whatever the rate.
C11_BurstBackToBack ==
    [][Launches("BURST") =>
         /\ Len(all_tasks') = Len(all_tasks) + burst_size
         /\ IsPrefix(all_tasks, all_tasks')
         /\ \A i \in (Len(all_tasks) + 1)..Len(all_tasks') :
              Kind(all_tasks'[i]) = "BURST" /\ Number(all_tasks'[i]) = i - 1
         /\ started' = started
         /\ done' = done
         /\ sc'.pc = "sleep"
         /\ sc'.sleep = TicksPerSec]_vars
\* A burst has just been launched after background requests, some of which
\* have begun and some of which have not.
C11_Witness ==
    /\ sc.name = "bursty"
    /\ sc.pc = "sleep"
    /\ Len(all_tasks) > burst_size
    /\ Kind(Last(all_tasks)) = "BURST"
    /\ Kind(all_tasks[1]) = "BG"
    /\ started >= 1
    /\ started < Len(all_tasks) - burst_size
    /\ rate > 1

\* C12: a step of the bursty loop that launches a background request launches
\* exactly that one request, and leaves the loop in a sleep of 2 / rate
\* seconds; the loop takes its next decision no earlier than that.
C12_BackgroundOneThenWait ==
    /\ [][Launches("BG") =>
            /\ all_tasks' = Append(all_tasks, Last(all_tasks'))
            /\ Number(Last(all_tasks')) = Len(all_tasks)
            /\ sc'.pc = "sleep"
            /\ sc'.sleep * rate = 2 * TicksPerSec]_vars
    /\ [][(sc.pc = "sleep" /\ sc'.pc = "loop") =>
            wall' >= wall + sc.sleep]_vars
\* The loop has woken from the sleep that followed a background request, at
\* a rate other than 1.
C12_Witness ==
    /\ sc.name = "bursty"
    /\ sc.pc = "loop"
    /\ rate = 2
    /\ all_tasks # <<>>
    /\ Kind(Last(all_tasks)) = "BG"
    /\ wall - sc.start_test >= TicksPerSec

\* C13: in a round-robin run the n-th launched request (n counted from 0)
\* targets MODELS[n mod len(MODELS)] and is named RR-n, each launch is
\* followed by a sleep of 1 / rate seconds, and the random generators are
\* never consulted: this holds for every seed.
C13_RoundRobinOrder ==
    sc.name = "round_robin" =>
        /\ \A n \in 0..(Len(all_tasks) - 1) :
              /\ all_tasks[n + 1].request_id = <<"RR", n>>
              /\ all_tasks[n + 1].model = MODELS[(n % Len(MODELS)) + 1]
        /\ sc.pc = "sleep" => sc.sleep * rate = TicksPerSec
        /\ random_gen = Seeded(seed) /\ np_gen = Seeded(seed)
\* A round-robin run under a seed other than the default has gone round the
\* model list more than once.
C13_Witness ==
    /\ sc.name = "round_robin"
    /\ seed # DEFAULT_SEED
    /\ rate > 1
    /\ sc.pc = "sleep"
    /\ Len(all_tasks) > 2 * Len(MODELS)

\* C17: the tracked list is the launch history: it has as many tasks as the
\* loop has launched requests, and its i-th task is the i-th request launched.
C17_TrackedInLaunchOrder ==
    /\ Len(all_tasks) = sc.req_id
    /\ \A i \in 1..Len(all_tasks) : Number(all_tasks[i]) = i - 1
\* A bursty run has tracked background requests, a burst, and a background
\* request after it.
C17_Witness ==
    /\ sc.name = "bursty"
    /\ Len(all_tasks) > burst_size + 1
    /\ Kind(all_tasks[1]) = "BG"
    /\ Kind(Last(all_tasks)) = "BG"
    /\ \E i \in 1..Len(all_tasks) : Kind(all_tasks[i]) = "BURST"

\* ------------------------------------------- claims on run_single_test
Saved == run.pc = "saved"
\* The tasks that have begun and are not done.
InFlight == (1..started) \ Finished
\* The collected records of the request tracked at position i.
RecordsOf(i) ==
    {rec \in BagToSet(responses) : rec.request_id = all_tasks[i].request_id}
\* The request tracked at position i has exactly one collected record.
OneRecord(i) ==
    /\ Cardinality(RecordsOf(i)) = 1
    /\ \A rec \in RecordsOf(i) : CopiesIn(rec, responses) = 1
Targets == [i \in 1..Len(all_tasks) |-> all_tasks[i].model]
RoundRobinTen == sc.name = "round_robin" /\ rate = 2 /\ duration = 5
TenTargets ==
    <<"Chatbot-A-large", "Chatbot-B", "Chatbot-C",
      "Chatbot-A-large", "Chatbot-B", "Chatbot-C",
      "Chatbot-A-large", "Chatbot-B", "Chatbot-C", "Chatbot-A-large">>

\* C14, as stated: a round-robin run over three models at 2 requests per
\* second for 5 seconds launches exactly the requests 0..9, targeting
\* A, B, C, A, B, C, A, B, C, A, and ends with exactly 10 records.
C14_ExactlyTenRequests ==
    (RoundRobinTen /\ Saved) =>
        /\ Targets = TenTargets
        /\ \A n \in 0..9 : all_tasks[n + 1].request_id = <<"RR", n>>
        /\ BagCardinality(responses) = 10

\* C14, amended: such a run launches at most 10 requests, the n-th named
\* RR-n and targeting the n-th model of A, B, C, A, B, C, A, B, C, A, two
\* successive launches at least 0.5 s apart; it launches all 10 unless its
\* sleeps overran by 0.5 s or more in total; and it ends with exactly one
\* record for each request it launched.
C14_AtMostTenRequests ==
    /\ [](RoundRobinTen =>
            /\ Len(all_tasks) <= 10
            /\ \A n \in 0..(Len(all_tasks) - 1) :
                  all_tasks[n + 1] = Task(<<"RR", n>>, TenTargets[n + 1]))
    /\ [][(RoundRobinTen /\ sc.pc = "sleep" /\ sc'.pc = "loop") =>
            2 * (wall' - wall) >= TicksPerSec]_vars
    /\ []((RoundRobinTen /\ Saved) =>
            /\ \/ Len(all_tasks) = 10
               \/ 2 * (wall - sc.start_test) > Len(all_tasks) * TicksPerSec
            /\ BagCardinality(responses) = Len(all_tasks)
            /\ \A i \in 1..Len(all_tasks) : OneRecord(i))
\* The run has ended after 10 launches, every connection having been refused.
C14_Witness ==
    /\ RoundRobinTen
    /\ Saved
    /\ endpoint = "down"
    /\ Targets = TenTargets
    /\ BagCardinality(responses) = 10

\* C15: the scheduling loop is suspended nowhere but in its sleep, and the
\* sleep can return whatever has become of the tasks launched so far.
C15_LoopNeverWaitsForTask ==
    /\ sc.pc \in {"loop", "body", "sleep", "done"}
    /\ sc.pc = "sleep" => ENABLED ScWake
\* Three requests have been launched and none has finished; two or more have
\* begun their exchange.
C15_Witness ==
    /\ Len(all_tasks) >= 3
    /\ Finished = {}
    /\ Cardinality(InFlight) >= 2
    /\ sc.pc = "sleep"

\* C16: once the result table is built the scenario has returned, every
\* tracked task is done, and the responses hold exactly one record for each
\* tracked task and nothing else.
C16_OneRecordPerRequest ==
    Saved =>
        /\ sc.pc = "done"
        /\ Finished = 1..Len(all_tasks)
        /\ BagCardinality(responses) = Len(all_tasks)
        /\ \A i \in 1..Len(all_tasks) : OneRecord(i)
\* A run against the flaky endpoint has ended with three or more requests,
\* of different outcomes.
C16_Witness ==
    /\ Saved
    /\ endpoint = "flaky"
    /\ Len(all_tasks) >= 3
    /\ Cardinality({rec.status : rec \in BagToSet(responses)}) >= 2

\* C18: a failing request changes nothing but its own outcome: no exception
\* is left in a task, the run never crashes, the loop stops only at the end
\* of its window, and when the table is built every request, failed or not,
\* has its own record, the failed ones with status FAIL.
C18_FailureIsContained ==
    /\ run.pc # "crashed"
    /\ \A d \in done : ~d.raised
    /\ sc.pc = "done" => ~BRunning(wall - sc.start_test, duration)
    /\ Saved =>
         \A d \in done :
            /\ OneRecord(d.task)
            /\ RecordsOf(d.task) = {Record(d)}
\* The first request failed, a later one succeeded, and the table is built.
C18_Witness ==
    /\ Saved
    /\ Len(all_tasks) >= 3
    /\ \E d \in done : d.task = 1 /\ d.status = "FAIL"
    /\ \E d \in done : d.task > 1 /\ d.status = "SUCCESS"

\* C19: when the event loop keeps running and every exchange ends, a run
\* reaches and keeps the state in which the loop has stopped and the table
\* is built with a record for every launched request.
C19_RunCompletes ==
    <>[](Saved /\ sc.pc = "done"
         /\ BagCardinality(responses) = Len(all_tasks))
\* The table is built although every request of the run failed.
C19_Witness ==
    /\ Saved
    /\ endpoint = "down"
    /\ Len(all_tasks) >= 2
    /\ \A rec \in BagToSet(responses) : rec.status = "FAIL"

\* ---------------------------------------------- claims on the timeout
InExchange == m.pc \in {"post", "stream"}

C21_NoArrivalAfterWindow ==
    /\ [][Len(all_tasks') > Len(all_tasks) =>
            /\ sc.pc = "body"
            /\ wall - sc.lag - sc.start_test < duration * TicksPerSec]_vars
    /\ [][sc.pc = "done" => (sc'.pc = "done" /\ all_tasks' = all_tasks)]_vars
    /\ [](sc.pc = "done" => wall - sc.start_test >= duration * TicksPerSec)
\* A bursty run is over, its last check having come after the end of the
\* window, and requests were launched up to the last second of the window.
C21_Witness ==
    /\ sc.name = "bursty"
    /\ sc.pc = "done"
    /\ wall - sc.start_test > duration * TicksPerSec
    /\ Len(all_tasks) > burst_size

\* C22: the per-model latency summary printed at the end of a run is computed
\* over records of status SUCCESS only.
C22_SummaryOverSuccessOnly ==
    Saved =>
        \A mdl \in DOMAIN LatencySummary(responses) :
            \A rec \in LatencySummary(responses)[mdl] : rec.status = "SUCCESS"

Min(x, y) == IF x <= y THEN x ELSE y

C24_OneGeneratorPerRun ==
    zp.pc = "pair" =>
        \A z \in {zp.a, zp.b} :
            \A i, j \in DOMAIN z.drawn :
                z.drawn[i].generator = z.drawn[j].generator

\* How many times an item of the queue has been executed, by any worker.
TimesExecuted(item) ==
    BagCardinality([x \in {y \in BagToSet(pool.executed) : y.item = item}
                       |-> CopiesIn(x, pool.executed)])
RequestingWorkers == {w \in DOMAIN pool.workers : pool.workers[w].pc = "request"}

\* C25: in the queue-driven phase every queued item is pulled and executed
\* exactly once, by one worker, for every pool size; queue.join returns only
\* after every item has been executed and marked done, whether its request
\* gave a record or failed.
C25_QueueDrainedOnce ==
    pool.pc # "idle" =>
        /\ \A item \in 1..pool.put : TimesExecuted(item) <= 1
        /\ \A w, v \in RequestingWorkers :
               pool.workers[w].item = pool.workers[v].item => w = v
        /\ \A w \in RequestingWorkers :
               TimesExecuted(pool.workers[w].item) = 0
        /\ pool.pc = "returned" =>
               /\ \A item \in 1..pool.put : TimesExecuted(item) = 1
               /\ pool.unfinished = 0 /\ pool.queue = <<>>
               /\ RequestingWorkers = {}

\* The join has returned on a queue of several items drained by several
\* workers, some of the requests having failed.
C25_Witness ==
    /\ pool.pc = "returned" /\ pool.put >= 3
    /\ Cardinality({x.worker : x \in BagToSet(pool.executed)}) >= 2
    /\ BagCardinality(pool.results) \in 1..(pool.put - 1)

\* C26: the requests in flight never exceed the bound: the size of the pool
\* in the queue-driven phase, the current batch_size in the batch phase.
C26_InFlightBounded ==
    /\ pool.pc # "idle" => Cardinality(RequestingWorkers) <= pool.concurrency
    /\ batch.pc # "idle" => Cardinality(batch.inflight) <= batch.batch_size

\* A later batch with every one of its requests in flight.
C26_Witness ==
    /\ batch.pc = "gather" /\ batch.batch_size > 2
    /\ Cardinality(batch.inflight) = batch.batch_size

\* C27: in the queue-driven phase every executed request contributes a record
\* to the results, also when it fails: there are as many records as tasks
\* executed.
C27_RecordPerExecutedRequest ==
    pool.pc = "returned" =>
        BagCardinality(pool.results) = BagCardinality(pool.executed)

\* C28: a scenario given no model fails before any request is launched: for
\* each of the three scenarios an empty list of models makes the first turn
\* of the loop raise, no task having been created.
C28_NoModelFailsFast ==
    (cfg.pc # "idle" /\ cfg.models = <<>>) =>
        /\ cfg.launched = <<>>
        /\ cfg.pc \in {"loop", "body", "raised", "failed"}
        /\ cfg.pc \in {"raised", "failed"} => cfg.error # "none"
        /\ cfg.pc = "body" => ENABLED ArrivalSelect
        /\ cfg.pc = "raised" => ENABLED ArrivalRaise

\* The zipfian scenario has failed on an empty list, on the weights that do
\* not match it.
C28_Witness ==
    /\ cfg.pc = "failed" /\ cfg.models = <<>> /\ cfg.name = "zipfian"
    /\ cfg.error = "ValueError" /\ cfg.launched = <<>>

\* A step of send_request: a task begins, or its exchange ends and it returns.
SendRequestStep == started' # started \/ done' # done

BothDone == m.pc = "done" /\ s.pc = "done" /\ s.returned = "record"

\* C30: on the same arrival times of two or more data frames the itl_ms of
\* the single-model executor, (last - first) / (count - 1), equals the
\* avg_itl_ms of the multi-model executor,
\* (total_latency_ms - ttft_ms) / (unit_count - 1); on one data frame both
\* are 0.
C30_SameItl ==
    BothDone =>
        /\ Len(frames) >= 2 =>
               /\ QEq(s.avg_itl, Quot(Ms(Last(frames) - frames[1]),
                                      Len(frames) - 1))
               /\ QEq(MRecord.avg_itl_ms,
                      Quot(MRecord.total_latency_ms - MRecord.ttft_ms,
                           MRecord.token_count - 1))
               /\ QEq(s.avg_itl, MRecord.avg_itl_ms)
        /\ Len(frames) = 1 => (s.avg_itl = Zero /\ MRecord.avg_itl_ms = Zero)

\* Three data frames spread over time, received by two executors that were
\* called at different times.
C30_Witness ==
    /\ BothDone /\ Len(frames) = MaxFrames
    /\ frames[1] < frames[2] /\ frames[2] < Last(frames)
    /\ s.start_time # m.start_time
    /\ ~IsZero(s.avg_itl)

\* C31: the request ids of one scenario run are unique: the counter req_id
\* increases by exactly one per launched request, burst and background
\* requests of the bursty scenario share it, and no two launched requests
\* carry the same request id, nor the same number.
C31_RequestIdsUnique ==
    /\ [][sc'.req_id - sc.req_id = Len(all_tasks') - Len(all_tasks)]_vars
    /\ [](\A i, j \in DOMAIN all_tasks :
             (\/ all_tasks[i].request_id = all_tasks[j].request_id
              \/ Number(all_tasks[i]) = Number(all_tasks[j])) => i = j)

\* A bursty run has ended with background requests before and after a burst.
C31_Witness ==
    /\ sc.name = "bursty" /\ sc.pc = "done"
    /\ \E i, j, k \in DOMAIN all_tasks :
          /\ i < j /\ j < k
          /\ Kind(all_tasks[i]) = "BG" /\ Kind(all_tasks[j]) = "BURST"
          /\ Kind(all_tasks[k]) = "BG"

\* C32: with option 4 the scenarios run one after another in the order round
\* robin, zipfian, bursty: a scenario begins only when every request of the
\* one before has returned and been collected, so no request of an earlier
\* scenario is outstanding while a later one runs, and every scenario begins
\* on generators of its own, built from the seed.
C32_RunAllOneAfterAnother ==
    /\ [][(tests.pc = "test" /\ tests.option = 4 /\ sc'.name # sc.name) =>
             /\ tests'.i = tests.i + 1
             /\ sc'.name = CaseName(tests.i + 1)
             /\ run.pc = "saved" /\ sc.pc = "done"
             /\ InFlight = {} /\ started = Len(all_tasks)
             /\ \A k \in DOMAIN all_tasks : k \in Finished /\ OneRecord(k)
             /\ all_tasks' = <<>> /\ sc'.req_id = 0
             /\ random_gen' = Seeded(seed) /\ np_gen' = Seeded(seed)]_vars
    /\ []((tests.pc # "idle" /\ tests.option = 4) =>
             /\ sc.name = <<"round_robin", "zipfian", "bursty">>[tests.i]
             /\ tests.carried = {})

\* The bursty scenario of option 4 has requests in flight, after a round
\* robin and a zipfian scenario that have run and been collected.
C32_Witness ==
    /\ tests.pc = "test" /\ tests.option = 4 /\ tests.i = 3
    /\ sc.name = "bursty" /\ InFlight # {}
    /\ random_gen # Seeded(seed)

\* C33: the batches of the batch phase are separated by a barrier and run in
\* the configured order: the next batch is issued only when every request of
\* the current one has returned, its size is the next of PHASE2_BATCH_SIZES,
\* and the requests issued or in flight are those of the current batch.
C33_BatchBarrier ==
    /\ [][(batch.pc = "gather" /\ batch'.next # batch.next) =>
             /\ batch.waiting = {} /\ batch.inflight = {}
             /\ {r.request : r \in batch.returned} =
                    {<<batch.batch_size, i>> : i \in 1..batch.batch_size}
             /\ batch'.next = batch.next + 1
             /\ batch'.batch_size = PHASE2_BATCH_SIZES[batch.next]
             /\ batch'.waiting =
                    {<<batch'.batch_size, i>> : i \in 1..batch'.batch_size}]_vars
    /\ [](batch.pc = "gather" =>
             /\ batch.batch_size = PHASE2_BATCH_SIZES[batch.next - 1]
             /\ \A q \in batch.waiting \cup batch.inflight :
                    q[1] = batch.batch_size)

\* The third batch is under way, part issued, part in flight and part
\* returned, the results of the batches before it having been kept.
C33_Witness ==
    /\ batch.pc = "gather" /\ batch.next = 4
    /\ batch.waiting # {} /\ batch.inflight # {} /\ batch.returned # {}
    /\ BagCardinality(batch.results) = 3

\* C34: a worker of the pool never suspends on an empty queue: whenever it
\* calls get an item is there, so a worker is before its first step, in a
\* request with an item in hand, or out of its loop; when queue.join has
\* returned every worker has left its loop or has been cancelled, and none
\* holds an item that was not executed.
C34_NoWorkerWaitsOnEmptyQueue ==
    pool.pc # "idle" =>
        /\ \A w \in DOMAIN pool.workers :
               /\ pool.workers[w].pc # "get"
               /\ pool.workers[w].pc = "request" =>
                      pool.workers[w].item \in 1..pool.put
               /\ (pool.pc = "join" /\ pool.workers[w].pc = "exited") =>
                      pool.queue = <<>>
        /\ pool.pc = "returned" =>
               \A w \in DOMAIN pool.workers :
                   /\ pool.workers[w].pc \in {"exited", "cancelled"}
                   /\ pool.workers[w].item # None =>
                          TimesExecuted(pool.workers[w].item) = 1
                   /\ pool.workers[w].pc = "cancelled" =>
                          pool.workers[w].item = None

\* The queue is empty and one worker has left its loop while another is
\* still in its request.
C34_Witness ==
    /\ pool.pc = "join" /\ pool.queue = <<>> /\ pool.concurrency >= 2
    /\ \E w, v \in DOMAIN pool.workers :
          /\ pool.workers[w].pc = "exited"
          /\ pool.workers[v].pc = "request"
    /\ BagCardinality(pool.executed) >= 2

=============================================================================
